---------------------------- MODULE Spec2Model ----------------------------
(***************************************************************************)
(* Model of the two components of the telemetry transport core:            *)
(*   - the UDP socket source   (src/src/sources/socket/udp.rs, fn udp)      *)
(*   - the Splunk HEC metrics sink                                          *)
(*                 (src/src/sinks/splunk_hec/metrics/sink.rs, run_inner)    *)
(* The two components share no state; each has its own next-state relation *)
(* and its own specification (UdpSpec, SinkSpec).                          *)
(***************************************************************************)
EXTENDS Integers, Sequences, FiniteSets, TLC

(***************************************************************************)
(* Bounds of the model.                                                    *)
(***************************************************************************)
MaxDatagrams == 2
MaxFrames == 2
MaxEvents == 2
ChanCap == 1
MaxInput == 3
BatchItemLimit == 2
BatchTimeout == 2

VARIABLES
    \* ---- UDP source -------------------------------------------------------
    windows,        \* build target: TRUE iff compiled with cfg(windows)
    config,         \* UdpConfig: max_length, receive_buffer_bytes
    pc,             \* position of the udp() future
    ret,            \* value returned by udp(): "none" while running
    exit,           \* which return statement ended the run
    shutdown,       \* the ShutdownSignal has resolved
    max_length,     \* the effective max_length (line 147)
    bufLen,         \* buf.len()
    netQueue,       \* datagrams (or receive errors) waiting on the socket
    lastRecv,       \* outcome of the latest socket.recv_from
    wire_len,       \* length on the wire of the datagram received last
    byte_size,      \* bytes read by the latest recv_from
    truncated,      \* line 188
    recvCount,      \* number of recv_from calls that have completed
    dgram,          \* decode results of the current datagram (whole sequence)
    stream,         \* decode results not yet pulled from the peekable stream
    events,         \* the batch of the pending (or latest) send_batch
    fwd,            \* events of the current datagram accepted by the channel
    pulledEvents,   \* events of the Ok results pulled so far (before any drop)
    unacked,        \* batches handed to send_batch and not (yet) accepted
    warnings,       \* "Discarding frame larger than max_length" of this datagram
    chanLen,        \* batches sitting in the output channel
    chanClosed,     \* the receiver of the output channel is gone
    bindResult,     \* outcome of try_bind_udp_socket
    stream_closed,  \* the counts of the StreamClosedError emissions
    events_received,\* SocketEventsReceived emissions of this datagram
    \* ---- HEC metrics sink -------------------------------------------------
    consumed,       \* events taken from the input stream so far
    inputEnded,     \* the input stream has returned None
    unsupportedSeen,\* consumed metrics that are neither Counter nor Gauge
    invalid_emits,  \* SplunkInvalidMetricReceivedError emissions
    open,           \* the batcher's open batch of every partition key
    age,            \* time since the open batch of a key was opened
    fed,            \* the batches fed to the RequestBuilder, in order
    status,         \* per fed batch: "building", "ok" or "fail"
    yielded,        \* build results yielded by the request_builder stage
    driver,         \* the Requests handed to the driver (indices into fed)
    build_errors,   \* "Failed to build HEC Metrics request" error logs
    sinkDone        \* run() has returned

udpVars == <<windows, config, pc, ret, exit, shutdown, max_length, bufLen,
             netQueue, lastRecv, wire_len, byte_size, truncated, recvCount,
             dgram, stream, events, fwd, pulledEvents, unacked, warnings,
             chanLen, chanClosed, bindResult, stream_closed,
             events_received>>

sinkVars == <<consumed, inputEnded, unsupportedSeen, invalid_emits, open, age,
              fed, status, yielded, driver, build_errors, sinkDone>>

\* the enrichment of one decoded batch (udp(), lines 217-253)
VARIABLES
    enPc,           \* "idle", "decoded" or "forwarded"
    enCfg,          \* UdpConfig: host_key and port_key
    enEvents,       \* the events as the decoder returned them
    enOut           \* the events as they are handed to send_batch

enrichVars == <<enPc, enCfg, enEvents, enOut>>

vars == <<udpVars, sinkVars, enrichVars>>

(***************************************************************************)
(* Helpers                                                                 *)
(***************************************************************************)
Min(a, b) == IF a <= b THEN a ELSE b

NoneOpt == [some |-> FALSE, v |-> 0]
Some(x) == [some |-> TRUE, v |-> x]

(***************************************************************************)
(* The Decoder: a finite sequence of decode results per payload.  A result *)
(* is Ok((events, byte_size)) or Err(error) with error.can_continue().     *)
(***************************************************************************)
FrameShapes ==
    {[ok |-> TRUE, n |-> k, can_continue |-> TRUE] : k \in 0..MaxEvents}
    \cup {[ok |-> FALSE, n |-> 0, can_continue |-> b] : b \in BOOLEAN}

DatagramShapes == UNION {[1..m -> FrameShapes] : m \in 0..MaxFrames}

Decode(shape, d) ==
    [f \in 1..Len(shape) |->
        [ok |-> shape[f].ok,
         can_continue |-> shape[f].can_continue,
         events |-> [i \in 1..shape[f].n |-> [d |-> d, f |-> f, i |-> i]]]]

(***************************************************************************)
(* UdpConfig values the run is started with: receive_buffer_bytes absent,  *)
(* below, equal to and above max_length.                                   *)
(***************************************************************************)
ConfigSpace ==
    [max_length : {1, 2},
     receive_buffer_bytes : {NoneOpt, Some(1), Some(3)}]

\* lengths on the wire of the datagrams sent to a socket reading with a
\* limit of ml: shorter than, equal to and longer than the limit
WireLengths(ml) == 0..(ml + 2)

(***************************************************************************)
(* udp(): lines 147-150, the effective max_length.                         *)
(***************************************************************************)
\* EffectiveMaxLength that ignores receive_buffer_bytes
EffectiveMaxLength_IgnoreBuffer(cfg) == cfg.max_length

EffectiveMaxLength(cfg) ==
    IF cfg.receive_buffer_bytes.some
    THEN Min(cfg.max_length, cfg.receive_buffer_bytes.v)
    ELSE cfg.max_length

\* line 159: buf.resize(max_length + 1, 0)
Resize(ml) == ml + 1

\* line 161: recv_from fills at most buf.len() bytes
BytesRead(wire, len) == Min(wire, len)

\* line 188
IsTruncated(size, ml) == size = ml + 1

\* IsMessageTooLong with the recovery of lines 165-176 left out
IsMessageTooLong_Never(err) == FALSE

\* lines 165-176: the cfg(windows) test of raw_os_error() == 10040
IsMessageTooLong(err) == windows /\ err = "msgsize"

\* TruncationDrop that removes the first event instead of the last
TruncationDrop_Head(evs, last, trunc) ==
    IF last /\ trunc /\ evs # <<>> THEN Tail(evs) ELSE evs

\* TruncationDrop without the test of `last`
TruncationDrop_EveryFrame(evs, last, trunc) ==
    IF trunc /\ evs # <<>> THEN SubSeq(evs, 1, Len(evs) - 1) ELSE evs

\* lines 196-204: the last event of the last result of a truncated payload
\* is popped (Vec::pop on an empty list does nothing)
TruncationDrop(evs, last, trunc) ==
    IF last /\ trunc /\ evs # <<>> THEN SubSeq(evs, 1, Len(evs) - 1) ELSE evs

\* TruncationWarn without the test of `last`
TruncationWarn_EveryFrame(last, trunc) == IF trunc THEN 1 ELSE 0

\* lines 196-203: the warning is logged whenever the branch is taken
TruncationWarn(last, trunc) == IF last /\ trunc THEN 1 ELSE 0

(***************************************************************************)
(* Initial state                                                           *)
(***************************************************************************)
\* the state in which udp() is called on build w with UdpConfig cfg
UdpStart(w, cfg) ==
    /\ windows = w
    /\ config = cfg
    /\ pc = "bind"
    /\ ret = "none"
    /\ exit = "none"
    /\ shutdown = FALSE
    /\ max_length = 0
    /\ bufLen = 0
    /\ netQueue = 0
    /\ lastRecv = "none"
    /\ wire_len = 0
    /\ byte_size = 0
    /\ truncated = FALSE
    /\ recvCount = 0
    /\ dgram = <<>>
    /\ stream = <<>>
    /\ events = <<>>
    /\ fwd = <<>>
    /\ pulledEvents = <<>>
    /\ unacked = 0
    /\ warnings = 0
    /\ chanLen = 0
    /\ chanClosed = FALSE
    /\ bindResult = "none"
    /\ stream_closed = <<>>
    /\ events_received = 0

UdpInit == \E w \in BOOLEAN, cfg \in ConfigSpace : UdpStart(w, cfg)


\* the variables of one loop iteration (lines 159-274)
iterVars == <<lastRecv, wire_len, byte_size, truncated, dgram, stream, events,
              fwd, pulledEvents, warnings, events_received>>

\* the end of a loop iteration: its locals go out of scope, and the record
\* kept of the datagram is cleared with them
IterationEnd ==
    /\ wire_len' = 0
    /\ byte_size' = 0
    /\ truncated' = FALSE
    /\ dgram' = <<>>
    /\ stream' = <<>>
    /\ events' = <<>>
    /\ fwd' = <<>>
    /\ pulledEvents' = <<>>
    /\ warnings' = 0
    /\ events_received' = 0

(***************************************************************************)
(* Environment of the UDP source                                           *)
(***************************************************************************)
\* a datagram (or a socket error) becomes ready on the socket
NetArrive ==
    /\ UNCHANGED <<sinkVars, enrichVars>>
    /\ UNCHANGED stream_closed
    /\ pc # "done"
    /\ recvCount + netQueue < MaxDatagrams
    /\ netQueue' = netQueue + 1
    /\ UNCHANGED <<windows, config, pc, ret, exit, shutdown, max_length,
                   bufLen, recvCount, unacked, chanLen, chanClosed,
                   bindResult, iterVars>>

\* the shutdown signal resolves (exactly once)
ShutdownResolve ==
    /\ UNCHANGED <<sinkVars, enrichVars>>
    /\ UNCHANGED stream_closed
    /\ pc # "done"
    /\ ~shutdown
    /\ shutdown' = TRUE
    /\ UNCHANGED <<windows, config, pc, ret, exit, max_length, bufLen,
                   netQueue, recvCount, unacked, chanLen, chanClosed,
                   bindResult, iterVars>>

\* the consumer of the output channel takes one batch
ChanTake ==
    /\ UNCHANGED <<sinkVars, enrichVars>>
    /\ UNCHANGED stream_closed
    /\ pc # "done"
    /\ chanLen > 0
    /\ ~chanClosed
    /\ chanLen' = chanLen - 1
    /\ UNCHANGED <<windows, config, pc, ret, exit, shutdown, max_length,
                   bufLen, netQueue, recvCount, unacked, chanClosed,
                   bindResult, iterVars>>

\* the receiver of the output channel is dropped, and what it held with it
ChanClose ==
    /\ UNCHANGED <<sinkVars, enrichVars>>
    /\ UNCHANGED stream_closed
    /\ pc # "done"
    /\ ~chanClosed
    /\ chanClosed' = TRUE
    /\ chanLen' = 0
    /\ UNCHANGED <<windows, config, pc, ret, exit, shutdown, max_length,
                   bufLen, netQueue, recvCount, unacked, bindResult, iterVars>>

(***************************************************************************)
(* udp(): lines 131-157                                                    *)
(***************************************************************************)
BindFail ==
    /\ UNCHANGED <<sinkVars, enrichVars>>
    /\ UNCHANGED stream_closed
    /\ pc = "bind"
    /\ bindResult' = "fail"
    /\ pc' = "done"
    /\ ret' = "Err"
    /\ exit' = "bind_error"
    /\ UNCHANGED <<windows, config, shutdown, max_length, bufLen, netQueue,
                   recvCount, unacked, chanLen, chanClosed, iterVars>>

BindOk ==
    /\ UNCHANGED <<sinkVars, enrichVars>>
    /\ UNCHANGED stream_closed
    /\ pc = "bind"
    /\ bindResult' = "ok"
    /\ max_length' = EffectiveMaxLength(config)
    /\ bufLen' = Resize(EffectiveMaxLength(config))
    /\ pc' = "recv"
    /\ UNCHANGED <<windows, config, ret, exit, shutdown, netQueue, recvCount,
                   unacked, chanLen, chanClosed, iterVars>>

(***************************************************************************)
(* udp(): the outer select, lines 160-190 and 275                          *)
(***************************************************************************)
\* recv_from returns Ok((byte_size, address))
RecvOk ==
    /\ UNCHANGED <<sinkVars, enrichVars>>
    /\ UNCHANGED stream_closed
    /\ pc = "recv"
    /\ netQueue > 0
    /\ \E wire \in WireLengths(max_length), shape \in DatagramShapes :
          /\ wire_len' = wire
          /\ byte_size' = BytesRead(wire, bufLen)
          /\ bufLen' = bufLen - BytesRead(wire, bufLen)
          /\ truncated' = IsTruncated(BytesRead(wire, bufLen), max_length)
          /\ dgram' = Decode(shape, recvCount + 1)
          /\ stream' = Decode(shape, recvCount + 1)
    /\ netQueue' = netQueue - 1
    /\ recvCount' = recvCount + 1
    /\ lastRecv' = "ok"
    /\ pc' = "frames"
    /\ warnings' = 0
    /\ UNCHANGED <<windows, config, ret, exit, shutdown, max_length, unacked,
                   chanLen, chanClosed, bindResult, events, fwd, pulledEvents,
                   events_received>>

\* what recv_from's Err(error) leads to: back to line 159 for the platform's
\* "message too long", else the return of line 178
AfterRecvErr(err) == IF IsMessageTooLong(err) THEN "recv" ELSE "done"

\* recv_from returns Err(error)
RecvErr ==
    /\ UNCHANGED <<sinkVars, enrichVars>>
    /\ UNCHANGED stream_closed
    /\ pc = "recv"
    /\ netQueue > 0
    /\ \E err \in (IF windows THEN {"msgsize", "error"} ELSE {"error"}) :
          /\ lastRecv' = err
          /\ pc' = AfterRecvErr(err)
          /\ IF AfterRecvErr(err) = "recv"
             THEN /\ bufLen' = Resize(max_length)
                  /\ warnings' = 1
                  /\ UNCHANGED <<ret, exit>>
             ELSE /\ ret' = "Err"
                  /\ exit' = "recv_error"
                  /\ UNCHANGED <<bufLen, warnings>>
    /\ netQueue' = netQueue - 1
    /\ recvCount' = recvCount + 1
    /\ UNCHANGED <<windows, config, shutdown, max_length, unacked, chanLen,
                   chanClosed, bindResult, wire_len, byte_size, truncated,
                   dgram, stream, events, fwd, pulledEvents, events_received>>

\* RecvShutdown that returns an error instead of Ok(())
RecvShutdown_Err ==
    /\ UNCHANGED <<sinkVars, enrichVars>>
    /\ UNCHANGED stream_closed
    /\ pc = "recv"
    /\ shutdown
    /\ pc' = "done"
    /\ ret' = "Err"
    /\ exit' = "recv_shutdown"
    /\ UNCHANGED <<windows, config, shutdown, max_length, bufLen, netQueue,
                   recvCount, unacked, chanLen, chanClosed, bindResult,
                   iterVars>>

\* line 275: the shutdown branch of the outer select
RecvShutdown ==
    /\ UNCHANGED <<sinkVars, enrichVars>>
    /\ UNCHANGED stream_closed
    /\ pc = "recv"
    /\ shutdown
    /\ pc' = "done"
    /\ ret' = "Ok"
    /\ exit' = "recv_shutdown"
    /\ UNCHANGED <<windows, config, shutdown, max_length, bufLen, netQueue,
                   recvCount, unacked, chanLen, chanClosed, bindResult,
                   iterVars>>

(***************************************************************************)
(* udp(): one iteration of the while loop, lines 192-273                   *)
(***************************************************************************)
\* AfterOk without waiting for send_batch
AfterOk_NoSend(evs) == "frames"

\* AfterOk without the test of line 206
AfterOk_AlwaysSend(evs) == "send"

\* where the loop goes after an Ok result: the inner select when the batch
\* is not empty (line 255), else the next result (line 207)
AfterOk(evs) == IF evs = <<>> THEN "frames" ELSE "send"

\* AfterErr that never looks at can_continue
AfterErr_AlwaysContinue(can_continue) == "frames"

\* where the loop goes after an Err result (lines 268-270)
AfterErr(can_continue) == IF can_continue THEN "frames" ELSE "recv"

StreamNext ==
    /\ UNCHANGED <<sinkVars, enrichVars>>
    /\ UNCHANGED stream_closed
    /\ pc = "frames"
    /\ IF stream = <<>>
       THEN \* stream.next() is None: the loop ends, back to line 159
            /\ pc' = "recv"
            /\ bufLen' = Resize(max_length)
            /\ IterationEnd
            /\ UNCHANGED <<lastRecv, unacked>>
       ELSE LET result == Head(stream)
                last == Tail(stream) = <<>>
            IN  IF result.ok
                THEN LET evs == TruncationDrop(result.events, last, truncated)
                     IN  /\ warnings' = warnings + TruncationWarn(last, truncated)
                         /\ pulledEvents' = pulledEvents \o result.events
                         /\ stream' = Tail(stream)
                         /\ pc' = AfterOk(evs)
                         /\ events' = evs
                         /\ unacked' = unacked + (IF evs = <<>> THEN 0 ELSE 1)
                         /\ events_received' =
                               events_received + (IF evs = <<>> THEN 0 ELSE 1)
                         /\ UNCHANGED <<bufLen, lastRecv, wire_len, byte_size,
                                        truncated, dgram, fwd>>
                ELSE IF AfterErr(result.can_continue) = "frames"
                     THEN /\ pc' = "frames"
                          /\ stream' = Tail(stream)
                          /\ UNCHANGED <<bufLen, lastRecv, wire_len,
                                         byte_size, truncated, dgram, events,
                                         fwd, pulledEvents, warnings, unacked,
                                         events_received>>
                     ELSE \* break: the rest of the stream is dropped
                          /\ pc' = AfterErr(result.can_continue)
                          /\ bufLen' = Resize(max_length)
                          /\ IterationEnd
                          /\ UNCHANGED <<lastRecv, unacked>>
    /\ UNCHANGED <<windows, config, ret, exit, shutdown, max_length, netQueue,
                   recvCount, chanLen, chanClosed, bindResult>>

(***************************************************************************)
(* udp(): the inner select, lines 255-263                                  *)
(***************************************************************************)
\* send_batch resolves Ok: the channel has accepted the batch
SendOk ==
    /\ UNCHANGED <<sinkVars, enrichVars>>
    /\ UNCHANGED stream_closed
    /\ pc = "send"
    /\ ~chanClosed
    /\ chanLen < ChanCap
    /\ chanLen' = chanLen + 1
    /\ fwd' = fwd \o events
    /\ unacked' = unacked - 1
    /\ events' = <<>>
    /\ pc' = "frames"
    /\ UNCHANGED <<windows, config, ret, exit, shutdown, max_length, bufLen,
                   netQueue, recvCount, chanClosed, bindResult, lastRecv,
                   wire_len, byte_size, truncated, dgram, stream,
                   pulledEvents, warnings, events_received>>

\* SendClosed that emits the error and goes on with the next frame
SendClosed_Continue ==
    /\ UNCHANGED <<sinkVars, enrichVars>>
    /\ pc = "send"
    /\ chanClosed
    /\ pc' = "frames"
    /\ events' = <<>>
    /\ stream_closed' = Append(stream_closed, Len(events))
    /\ UNCHANGED <<windows, config, ret, exit, shutdown, max_length, bufLen,
                   netQueue, recvCount, unacked, chanLen, chanClosed,
                   bindResult, lastRecv, wire_len, byte_size, truncated,
                   dgram, stream, fwd, pulledEvents, warnings,
                   events_received>>

\* send_batch resolves Err: StreamClosedError is emitted, the run returns Ok
SendClosed ==
    /\ UNCHANGED <<sinkVars, enrichVars>>
    /\ pc = "send"
    /\ chanClosed
    /\ pc' = "done"
    /\ ret' = "Ok"
    /\ exit' = "send_closed"
    /\ stream_closed' = Append(stream_closed, Len(events))
    /\ UNCHANGED <<windows, config, shutdown, max_length, bufLen, netQueue,
                   recvCount, unacked, chanLen, chanClosed, bindResult,
                   iterVars>>

\* SendShutdown that drops the batch and goes on with the loop
SendShutdown_Continue ==
    /\ UNCHANGED <<sinkVars, enrichVars>>
    /\ UNCHANGED stream_closed
    /\ pc = "send"
    /\ shutdown
    /\ pc' = "frames"
    /\ events' = <<>>
    /\ UNCHANGED <<windows, config, ret, exit, shutdown, max_length, bufLen,
                   netQueue, recvCount, unacked, chanLen, chanClosed,
                   bindResult, lastRecv, wire_len, byte_size, truncated,
                   dgram, stream, fwd, pulledEvents, warnings,
                   events_received>>

\* SendShutdown that does not return: the select is entered again
SendShutdown_Ignored ==
    /\ pc = "send"
    /\ shutdown
    /\ UNCHANGED vars

\* line 262: the shutdown branch of the inner select
SendShutdown ==
    /\ UNCHANGED <<sinkVars, enrichVars>>
    /\ UNCHANGED stream_closed
    /\ pc = "send"
    /\ shutdown
    /\ pc' = "done"
    /\ ret' = "Ok"
    /\ exit' = "send_shutdown"
    /\ UNCHANGED <<windows, config, shutdown, max_length, bufLen, netQueue,
                   recvCount, unacked, chanLen, chanClosed, bindResult,
                   iterVars>>

UdpNext ==
    \/ NetArrive
    \/ ShutdownResolve
    \/ ChanTake
    \/ ChanClose
    \/ BindFail
    \/ BindOk
    \/ RecvOk
    \/ RecvErr
    \/ RecvShutdown
    \/ StreamNext
    \/ SendOk
    \/ SendClosed
    \/ SendShutdown

(***************************************************************************)
(* The HEC metrics sink: HecMetricsSink::run_inner, lines 46-81.           *)
(* The stages batched_partitioned, request_builder and into_driver are     *)
(* library stages composed by run_inner.                                   *)
(***************************************************************************)
\* line 53
builder_limit == 64

\* Event metadata's splunk_hec_token: Option<Arc<str>>
NoToken == [some |-> FALSE, v |-> ""]
Token(t) == [some |-> TRUE, v |-> t]
Tokens == {NoToken, Token("a")}

\* MetricValue variants
MetricKinds == {"Counter", "Gauge", "Set"}

\* the n-th metric of the input stream
Metric(n, kind, token) == [id |-> n, kind |-> kind, token |-> token]

\* extract_metric_value with a Set arm that gives a value
extract_metric_value_SetOk(metric) ==
    CASE metric.kind = "Counter" -> [some |-> TRUE, emits |-> 0]
      [] metric.kind = "Gauge" -> [some |-> TRUE, emits |-> 0]
      [] metric.kind = "Set" -> [some |-> TRUE, emits |-> 0]
      [] OTHER -> [some |-> FALSE, emits |-> 1]

\* lines 137-150: Some(value) for Counter and Gauge; any other value emits
\* SplunkInvalidMetricReceivedError and gives None
extract_metric_value(metric) ==
    CASE metric.kind = "Counter" -> [some |-> TRUE, emits |-> 0]
      [] metric.kind = "Gauge" -> [some |-> TRUE, emits |-> 0]
      [] OTHER -> [some |-> FALSE, emits |-> 1]

\* lines 155-196: None when extract_metric_value is None (the ? of line 173),
\* else the metric paired with its metadata
process_metric(metric) ==
    IF extract_metric_value(metric).some
    THEN [some |-> TRUE, event |-> metric]
    ELSE [some |-> FALSE, event |-> metric]

\* partition that ignores the token
partition_Constant(item) == NoToken

\* lines 198-203: a HecProcessedEvent counts as one event
event_count(item) == 1

\* lines 104-106: EventPartitioner::partition
partition(item) == item.event.token

\* filter_map that passes every build result on
filter_map_request_KeepErr(result) == TRUE

\* lines 69-77: the filter_map after request_builder keeps Ok(req) only
filter_map_request(result) == result = "ok"

\* ---- batched_partitioned ---------------------------------------------------
\* BatchPush at the front
BatchPush_Front(batch, item) == <<item>> \o batch

\* a batch takes an item at its end
BatchPush(batch, item) == Append(batch, item)

\* BatchFull one item late
BatchFull_OffByOne(batch) == Len(batch) > BatchItemLimit

\* a batch is closed once it holds the item limit of batch_settings
BatchFull(batch) == Len(batch) >= BatchItemLimit

\* TimerExpired one tick late
TimerExpired_Late(a) == a > BatchTimeout

\* the timer of a batch has elapsed
TimerExpired(a) == a >= BatchTimeout

\* builds in flight or waiting to be yielded in the request_builder stage
InFlight == Len(fed) - yielded

\* the request_builder stage polls the batcher while it has room
BuilderHasRoom == InFlight < builder_limit

FedBatch(items, key, why) == [items |-> items, key |-> key, why |-> why]

SinkInit ==
    /\ consumed = 0
    /\ inputEnded = FALSE
    /\ unsupportedSeen = 0
    /\ invalid_emits = 0
    /\ open = [k \in Tokens |-> <<>>]
    /\ age = [k \in Tokens |-> 0]
    /\ fed = <<>>
    /\ status = <<>>
    /\ yielded = 0
    /\ driver = <<>>
    /\ build_errors = 0
    /\ sinkDone = FALSE

(***************************************************************************)
(* udp(): the enrichment of a decoded batch, lines 217-253                 *)
(***************************************************************************)
\* the field paths of a log event that the model tells apart: "host" is
\* log_schema().host_key(), "port" the default port key, "h" any other path
Paths == {"host", "port", "h"}

Absent == ""

PeerIp == "ip"

PeerPort == "pn"

NoKey == [some |-> FALSE, v |-> ""]

Key(p) == [some |-> TRUE, v |-> p]

EnrichConfigs ==
    [host_key : {NoKey, Key("h"), Key("port")},
     port_key : {NoKey, Key("h"), Key("host")}]

\* a decoded event: a log with a value ("old") or none at each path, or an
\* event of another kind
DecodedEvents == [kind : {"Log", "Metric"}, fields : [Paths -> {Absent, "old"}]]

\* lines 227-230
host_key_path(cfg) == IF cfg.host_key.some THEN cfg.host_key.v ELSE "host"

\* lines 238-241
port_key_path(cfg) == IF cfg.port_key.some THEN cfg.port_key.v ELSE "port"

\* HostLegacyKey that overwrites
HostLegacyKey_Overwrite(path) == [kind |-> "Overwrite", path |-> path]

\* line 235: Some(LegacyKey::InsertIfEmpty(&host_key_path))
HostLegacyKey(path) == [kind |-> "InsertIfEmpty", path |-> path]

\* line 248: Some(LegacyKey::InsertIfEmpty(&port_key_path))
PortLegacyKey(path) == [kind |-> "InsertIfEmpty", path |-> path]

\* LogNamespace::insert_source_metadata with a legacy key: the value is
\* written at the path, under InsertIfEmpty only when the path has no value
insert_source_metadata(fields, legacy_key, value) ==
    IF legacy_key.kind = "Overwrite" \/ fields[legacy_key.path] = Absent
    THEN [fields EXCEPT ![legacy_key.path] = value]
    ELSE fields

\* the body of the for loop, lines 220-252
EnrichEvent(cfg, event) ==
    IF event.kind = "Log"
    THEN LET withHost == insert_source_metadata(
                             event.fields,
                             HostLegacyKey(host_key_path(cfg)), PeerIp)
             withPort == insert_source_metadata(
                             withHost,
                             PortLegacyKey(port_key_path(cfg)), PeerPort)
         IN  [event EXCEPT !.fields = withPort]
    ELSE event

EnrichIdle ==
    /\ enPc = "idle"
    /\ enCfg = [host_key |-> NoKey, port_key |-> NoKey]
    /\ enEvents = <<>>
    /\ enOut = <<>>

\* a non-empty batch has been decoded under some configuration
EnrichInit ==
    /\ enPc = "decoded"
    /\ enCfg \in EnrichConfigs
    /\ enEvents \in UNION {[1..n -> DecodedEvents] : n \in 1..MaxEvents}
    /\ enOut = <<>>

\* lines 219-253: every event of the batch is enriched in place
Enrich ==
    /\ UNCHANGED <<udpVars, sinkVars>>
    /\ enPc = "decoded"
    /\ enOut' = [i \in 1..Len(enEvents) |-> EnrichEvent(enCfg, enEvents[i])]
    /\ enPc' = "forwarded"
    /\ UNCHANGED <<enCfg, enEvents>>

EnrichNext == Enrich

Init == UdpInit /\ SinkInit /\ EnrichIdle

\* the UDP source alone: the sink stays in its initial state
UdpOnlyInit == UdpInit /\ SinkInit /\ EnrichIdle

\* the sink alone: the UDP source stays in one initial state
SinkOnlyInit ==
    /\ UdpStart(FALSE, [max_length |-> 1, receive_buffer_bytes |-> NoneOpt])
    /\ SinkInit
    /\ EnrichIdle

\* the enrichment alone: source and sink stay in one initial state
EnrichOnlyInit ==
    /\ UdpStart(FALSE, [max_length |-> 1, receive_buffer_bytes |-> NoneOpt])
    /\ SinkInit
    /\ EnrichInit

\* lines 54-67: one event of the input stream goes through map, filter_map
\* (process_metric) and into the batcher
SinkConsume ==
    /\ UNCHANGED <<udpVars, enrichVars>>
    /\ ~inputEnded
    /\ consumed < MaxInput
    /\ BuilderHasRoom
    /\ \E kind \in MetricKinds, token \in Tokens :
         LET metric == Metric(consumed + 1, kind, token)
             processed == process_metric(metric)
             key == partition(processed)
             batch == BatchPush(open[key], processed)
         IN  /\ consumed' = consumed + 1
             /\ unsupportedSeen' =
                   unsupportedSeen + (IF kind \in {"Counter", "Gauge"} THEN 0 ELSE 1)
             /\ invalid_emits' = invalid_emits + extract_metric_value(metric).emits
             /\ IF ~processed.some
                THEN UNCHANGED <<open, age, fed, status>>
                ELSE IF BatchFull(batch)
                     THEN /\ open' = [open EXCEPT ![key] = <<>>]
                          /\ age' = [age EXCEPT ![key] = 0]
                          /\ fed' = Append(fed, FedBatch(batch, key, "full"))
                          /\ status' = Append(status, "building")
                     ELSE /\ open' = [open EXCEPT ![key] = batch]
                          /\ age' = [age EXCEPT ![key] =
                                        IF open[key] = <<>> THEN 0 ELSE @]
                          /\ UNCHANGED <<fed, status>>
    /\ UNCHANGED <<inputEnded, yielded, driver, build_errors, sinkDone>>

\* the input stream ends
SinkInputEnd ==
    /\ UNCHANGED <<udpVars, enrichVars>>
    /\ ~inputEnded
    /\ inputEnded' = TRUE
    /\ UNCHANGED <<consumed, unsupportedSeen, invalid_emits, open, age, fed,
                   status, yielded, driver, build_errors, sinkDone>>

\* time passes, unless a timer that has elapsed can fire first
SinkTick ==
    /\ UNCHANGED <<udpVars, enrichVars>>
    /\ ~sinkDone
    /\ \E k \in Tokens : open[k] # <<>>
    /\ ~ \E k \in Tokens : open[k] # <<>> /\ TimerExpired(age[k]) /\ BuilderHasRoom
    /\ \A k \in Tokens : age[k] <= BatchTimeout
    /\ age' = [k \in Tokens |-> IF open[k] # <<>> THEN age[k] + 1 ELSE age[k]]
    /\ UNCHANGED <<consumed, inputEnded, unsupportedSeen, invalid_emits, open,
                   fed, status, yielded, driver, build_errors, sinkDone>>

\* the timer of an open batch elapses: the batch is emitted
SinkTimerExpire ==
    /\ UNCHANGED <<udpVars, enrichVars>>
    /\ BuilderHasRoom
    /\ \E k \in Tokens :
          /\ open[k] # <<>>
          /\ TimerExpired(age[k])
          /\ open' = [open EXCEPT ![k] = <<>>]
          /\ age' = [age EXCEPT ![k] = 0]
          /\ fed' = Append(fed, FedBatch(open[k], k, "timer"))
          /\ status' = Append(status, "building")
    /\ UNCHANGED <<consumed, inputEnded, unsupportedSeen, invalid_emits,
                   yielded, driver, build_errors, sinkDone>>

\* after the end of the input the batcher emits what is left
SinkFlush ==
    /\ UNCHANGED <<udpVars, enrichVars>>
    /\ inputEnded
    /\ BuilderHasRoom
    /\ \E k \in Tokens :
          /\ open[k] # <<>>
          /\ open' = [open EXCEPT ![k] = <<>>]
          /\ age' = [age EXCEPT ![k] = 0]
          /\ fed' = Append(fed, FedBatch(open[k], k, "end"))
          /\ status' = Append(status, "building")
    /\ UNCHANGED <<consumed, inputEnded, unsupportedSeen, invalid_emits,
                   yielded, driver, build_errors, sinkDone>>

\* line 68: a concurrent build ends, with a Request or an error
SinkBuildFinish ==
    /\ UNCHANGED <<udpVars, enrichVars>>
    /\ \E i \in (yielded + 1)..Len(fed), result \in {"ok", "fail"} :
          /\ status[i] = "building"
          /\ status' = [status EXCEPT ![i] = result]
    /\ UNCHANGED <<consumed, inputEnded, unsupportedSeen, invalid_emits, open,
                   age, fed, yielded, driver, build_errors, sinkDone>>

\* lines 68-78: the request_builder stage yields its oldest result; the
\* filter_map logs and drops an Err, and passes an Ok Request to the driver
SinkYield ==
    /\ UNCHANGED <<udpVars, enrichVars>>
    /\ yielded < Len(fed)
    /\ status[yielded + 1] # "building"
    /\ yielded' = yielded + 1
    /\ IF filter_map_request(status[yielded + 1])
       THEN /\ driver' = Append(driver, yielded + 1)
            /\ UNCHANGED build_errors
       ELSE /\ build_errors' = build_errors + 1
            /\ UNCHANGED driver
    /\ UNCHANGED <<consumed, inputEnded, unsupportedSeen, invalid_emits, open,
                   age, fed, status, sinkDone>>

\* SinkReturn that does not wait for the batcher, the builds or the driver
SinkReturn_Early ==
    /\ UNCHANGED <<udpVars, enrichVars>>
    /\ ~sinkDone
    /\ inputEnded
    /\ sinkDone' = TRUE
    /\ UNCHANGED <<consumed, inputEnded, unsupportedSeen, invalid_emits, open,
                   age, fed, status, yielded, driver, build_errors>>

\* line 80: the driver has run the whole stream, run() returns
SinkReturn ==
    /\ UNCHANGED <<udpVars, enrichVars>>
    /\ ~sinkDone
    /\ inputEnded
    /\ \A k \in Tokens : open[k] = <<>>
    /\ yielded = Len(fed)
    /\ sinkDone' = TRUE
    /\ UNCHANGED <<consumed, inputEnded, unsupportedSeen, invalid_emits, open,
                   age, fed, status, yielded, driver, build_errors>>

SinkNext ==
    \/ SinkConsume
    \/ SinkInputEnd
    \/ SinkTick
    \/ SinkTimerExpire
    \/ SinkFlush
    \/ SinkBuildFinish
    \/ SinkYield
    \/ SinkReturn

UdpSpec == UdpOnlyInit /\ [][UdpNext]_vars

SinkSpec == SinkOnlyInit /\ [][SinkNext]_vars

EnrichSpec == EnrichOnlyInit /\ [][EnrichNext]_vars

(***************************************************************************)
(* The receive loop under fair scheduling.  Datagram numbers are reused at *)
(* the head of the loop, so that datagrams can arrive for ever; the        *)
(* receiver of the channel is under no obligation to take anything.        *)
(***************************************************************************)
CountRewind ==
    /\ UNCHANGED <<sinkVars, enrichVars>>
    /\ pc = "recv"
    /\ recvCount > 0
    /\ recvCount' = 0
    /\ UNCHANGED <<windows, config, pc, ret, exit, shutdown, max_length,
                   bufLen, netQueue, unacked, chanLen, chanClosed,
                   bindResult, stream_closed, iterVars>>

FairUdpInit ==
    /\ \E w \in BOOLEAN :
          UdpStart(w, [max_length |-> 1, receive_buffer_bytes |-> NoneOpt])
    /\ SinkInit
    /\ EnrichIdle

FairUdpNext == UdpNext \/ CountRewind

\* the task is polled while it can run (bind, the decode loop), and a
\* select that is entered again and again with the signal resolved takes
\* its shutdown branch at some point (tokio::select! picks at random among
\* the ready branches)
FairUdpSpec ==
    /\ FairUdpInit
    /\ [][FairUdpNext]_vars
    /\ WF_vars(BindOk \/ BindFail)
    /\ WF_vars(StreamNext)
    /\ SF_vars(RecvShutdown)
    /\ SF_vars(SendShutdown)

(***************************************************************************)
(* Properties                                                              *)
(***************************************************************************)
RECURSIVE Flatten(_)
Flatten(ss) == IF ss = <<>> THEN <<>> ELSE Head(ss) \o Flatten(Tail(ss))

Range(s) == {s[i] : i \in 1..Len(s)}

\* the events of all the decode results of a datagram, in decode order
AllEvents(results) == Flatten([f \in 1..Len(results) |-> results[f].events])

\* every decode result of the current datagram has been pulled and every
\* batch made from them has been accepted: stream.next() is about to be None
DatagramProcessed == pc = "frames" /\ stream = <<>> /\ dgram # <<>>

\* C1 as stated: a processed datagram yielding N >= 1 events has N-1 of them
\* forwarded when max_length + 1 bytes were read, and all N otherwise.
C1_AsStated ==
    (DatagramProcessed /\ Len(AllEvents(dgram)) >= 1) =>
        IF byte_size = max_length + 1
        THEN fwd = SubSeq(AllEvents(dgram), 1, Len(AllEvents(dgram)) - 1)
        ELSE fwd = AllEvents(dgram)

\* C1 (amended): for a processed datagram yielding N >= 1 events, when
\* max_length + 1 bytes were read and the final decode result is a success
\* with at least one event, exactly the N-1 events before the last event of
\* the final frame are forwarded; when max_length + 1 bytes were read and the
\* final decode result is an error or a success without events, and when
\* max_length bytes or fewer were read, all N events are forwarded.
C1_TruncationDrop ==
    (DatagramProcessed /\ Len(AllEvents(dgram)) >= 1) =>
        IF /\ byte_size = max_length + 1
           /\ dgram[Len(dgram)].ok
           /\ dgram[Len(dgram)].events # <<>>
        THEN fwd = SubSeq(AllEvents(dgram), 1, Len(AllEvents(dgram)) - 1)
        ELSE fwd = AllEvents(dgram)

\* a truncated datagram of two frames of two events each, three forwarded
C1_Witness ==
    /\ DatagramProcessed
    /\ byte_size = max_length + 1
    /\ Len(dgram) = 2
    /\ Len(dgram[1].events) = 2
    /\ Len(dgram[2].events) = 2
    /\ Len(fwd) = 3

\* a select of udp() with its first branch pending: nothing to receive, or
\* no room in the open output channel
SelectSuspended ==
    \/ pc = "recv" /\ netQueue = 0
    \/ pc = "send" /\ ~chanClosed /\ chanLen = ChanCap

\* C7: when the shutdown signal has resolved while a receive or a send is
\* suspended, the step udp() takes returns Ok(()), delivers nothing (the
\* pending batch included), pulls no further decode result and receives
\* nothing; and once udp() has returned nothing of it changes any more.
C7_ShutdownClean ==
    [][ /\ (shutdown /\ SelectSuspended /\ pc' # pc) =>
              /\ pc' = "done"
              /\ ret' = "Ok"
              /\ fwd' = fwd
              /\ chanLen' = chanLen
              /\ stream' = stream
              /\ recvCount' = recvCount
        /\ (pc = "done") =>
              /\ pc' = "done"
              /\ ret' = ret
              /\ fwd' = fwd
              /\ chanLen' = chanLen
              /\ stream' = stream
              /\ recvCount' = recvCount ]_vars

\* udp() has returned Ok from a send suspended on a full channel, with the
\* batch undelivered and decode results left in the stream
C7_Witness ==
    /\ exit = "send_shutdown"
    /\ ret = "Ok"
    /\ ~chanClosed
    /\ chanLen = ChanCap
    /\ events # <<>>
    /\ stream # <<>>
    /\ \A i \in 1..Len(events) : events[i] \notin Range(fwd)

\* C9: udp() returns Err exactly when the bind failed or the latest
\* recv_from returned an error other than the platform's message too long;
\* after that one the run goes on, and nothing else makes the run return Err.
C9_FatalOnly ==
    /\ (ret = "Err") <=> (bindResult = "fail" \/ lastRecv = "error")
    /\ (lastRecv = "msgsize" /\ exit = "none") => pc = "recv"
    /\ exit \in {"recv_shutdown", "send_shutdown", "send_closed"} => ret = "Ok"

\* a receive error ends the run with Err after an earlier datagram
C9_Witness ==
    /\ ret = "Err"
    /\ exit = "recv_error"
    /\ lastRecv = "error"
    /\ recvCount = 2

\* the events udp() holds: the pending batch and the undecoded rest
HeldEvents == Range(events) \cup Range(AllEvents(stream))

\* C10: at a socket receive no send is pending and every batch made has been
\* accepted; at most one batch is ever unaccepted; and all the events held
\* are those of the latest datagram, however many datagrams are waiting.
C10_Backpressure ==
    /\ pc = "recv" => (unacked = 0 /\ events = <<>> /\ stream = <<>>)
    /\ unacked <= 1
    /\ pc \in {"recv", "frames", "send"} =>
          \A e \in HeldEvents : e.d = recvCount

\* a send suspended on a full channel while a datagram waits on the socket
C10_Witness ==
    /\ pc = "send"
    /\ ~chanClosed
    /\ chanLen = ChanCap
    /\ unacked = 1
    /\ netQueue >= 1
    /\ fwd # <<>>

\* the events of the i-th batch fed to the RequestBuilder
BatchEvents(i) == [n \in 1..Len(fed[i].items) |-> fed[i].items[n].event]

\* C2: all the events of a batch fed to the RequestBuilder, and so of a
\* Request handed to the driver, have the same splunk_hec_token.
C2_PartitionIsolation ==
    /\ \A i \in 1..Len(fed) :
          \A x, y \in Range(BatchEvents(i)) : x.token = y.token
    /\ \A p \in 1..Len(driver) :
          \A x, y \in Range(BatchEvents(driver[p])) : x.token = y.token

\* a batch of two events between which an event of another token arrived
C2_Witness ==
    \E i, j \in 1..Len(fed) :
        /\ Len(fed[i].items) = 2
        /\ BatchEvents(i)[1].token # BatchEvents(j)[1].token
        /\ BatchEvents(i)[1].id < BatchEvents(j)[1].id
        /\ BatchEvents(j)[1].id < BatchEvents(i)[2].id

\* C3: every batch fed to the RequestBuilder holds at least one event and no
\* more than the item limit of batch_settings.
C3_BatchSizeBound ==
    \A i \in 1..Len(fed) :
        /\ Len(fed[i].items) >= 1
        /\ Len(fed[i].items) <= BatchItemLimit

\* a batch closed at the item limit and a batch closed below it
C3_Witness ==
    \E i, j \in 1..Len(fed) :
        /\ Len(fed[i].items) = BatchItemLimit
        /\ fed[i].why = "full"
        /\ Len(fed[j].items) < BatchItemLimit

C5_UnsupportedKindDrop ==
    /\ \A i \in 1..Len(fed) :
          \A x \in Range(BatchEvents(i)) : x.kind \in {"Counter", "Gauge"}
    /\ \A k \in Tokens :
          \A n \in 1..Len(open[k]) :
              open[k][n].event.kind \in {"Counter", "Gauge"}
    /\ invalid_emits = unsupportedSeen

\* two unsupported metrics were consumed and dropped, a supported one batched
C5_Witness ==
    /\ sinkDone
    /\ unsupportedSeen = 2
    /\ invalid_emits = 2
    /\ Len(fed) = 1

\* C6: of the build results yielded so far, exactly the successful ones are
\* with the driver, each once; each failed one is logged once and is not with
\* the driver; and the run returns only after the input has ended and every
\* batch has been built and yielded.
C6_BuildFailureIsolation ==
    /\ \A i \in 1..yielded :
          (status[i] = "ok") <=> (\E p \in 1..Len(driver) : driver[p] = i)
    /\ \A p, q \in 1..Len(driver) : driver[p] = driver[q] => p = q
    /\ \A p \in 1..Len(driver) : driver[p] <= yielded /\ status[driver[p]] = "ok"
    /\ build_errors = Cardinality({i \in 1..yielded : status[i] = "fail"})
    /\ sinkDone =>
          /\ inputEnded
          /\ yielded = Len(fed)
          /\ \A k \in Tokens : open[k] = <<>>

\* a failed build between two successful ones, both of them with the driver
C6_Witness ==
    /\ yielded = 3
    /\ status = <<"ok", "fail", "ok">>
    /\ driver = <<1, 3>>
    /\ build_errors = 1

\* the events of batch i all arrived before those of batch j of the same token
BatchBefore(i, j) ==
    \A x \in Range(BatchEvents(i)), y \in Range(BatchEvents(j)) :
        x.token = y.token => x.id < y.id

\* C8: events of one token are in arrival order inside a batch, over the
\* batches in the order they are fed to the RequestBuilder, and over the
\* Requests in the order they are handed to the driver.
C8_PerKeyOrder ==
    /\ \A i \in 1..Len(fed) :
          \A a, b \in 1..Len(fed[i].items) :
              (a < b /\ BatchEvents(i)[a].token = BatchEvents(i)[b].token)
                  => BatchEvents(i)[a].id < BatchEvents(i)[b].id
    /\ \A i, j \in 1..Len(fed) : i < j => BatchBefore(i, j)
    /\ \A p, q \in 1..Len(driver) : p < q => BatchBefore(driver[p], driver[q])

\* two Requests of one token with the driver, the first one of two events
C8_Witness ==
    /\ Len(driver) >= 2
    /\ Len(fed[driver[1]].items) = 2
    /\ fed[driver[1]].key = fed[driver[2]].key

-----------------------------------------------------------------------------
\* C11 (closed output channel): a send_batch that fails because the receiver
\* is gone makes the source emit exactly one StreamClosedError whose count is
\* the number of events of the batch it could not send, and return Ok(()):
\* the run is over (no remaining frame is processed, no datagram received),
\* the batch is not delivered, and nothing else emits that error.
C11_ClosedChannel ==
    /\ Len(stream_closed) <= 1
    /\ (stream_closed # <<>>) <=> (exit = "send_closed")
    /\ exit = "send_closed" =>
          /\ pc = "done"
          /\ ret = "Ok"
          /\ chanClosed
          /\ events # <<>>
          /\ stream_closed = <<Len(events)>>
          /\ Range(events) \cap Range(fwd) = {}

\* the channel closed under a batch of two events while a further frame of
\* the datagram and a further datagram were waiting
C11_Witness ==
    /\ exit = "send_closed"
    /\ stream_closed = <<2>>
    /\ stream # <<>>
    /\ netQueue >= 1

-----------------------------------------------------------------------------
\* a step of udp() itself within the receive loop (not of its environment)
LoopStep == pc \in {"recv", "frames", "send"} /\ (pc' # pc \/ stream' # stream)

\* C12 as stated: once the shutdown signal has resolved, the only step the
\* source takes is the return of Ok(()): no datagram is received, no further
\* decode result is pulled and no batch is delivered.
C12_AsStated ==
    [][ (shutdown /\ LoopStep) =>
            /\ pc' = "done"
            /\ ret' = "Ok"
            /\ recvCount' = recvCount
            /\ stream' = stream
            /\ fwd' = fwd ]_vars

\* C12 (shutdown is observed at the selects only): with the shutdown signal
\* resolved, every step of the source is the return of Ok(()) with nothing
\* received, decoded or delivered, or the completion of a receive that had a
\* datagram (or an error) ready, or the delivery of the pending batch to a
\* channel that had room, or the closed-channel return, or a step of the
\* decode loop, which does not look at the signal.
C12_ShutdownAtSelect ==
    [][ (shutdown /\ LoopStep) =>
            \/ /\ pc \in {"recv", "send"}
               /\ pc' = "done"
               /\ ret' = "Ok"
               /\ exit' \in {"recv_shutdown", "send_shutdown"}
               /\ recvCount' = recvCount
               /\ stream' = stream
               /\ fwd' = fwd
               /\ chanLen' = chanLen
            \/ /\ pc = "recv"
               /\ netQueue > 0
               /\ recvCount' = recvCount + 1
               /\ netQueue' = netQueue - 1
            \/ /\ pc = "send"
               /\ ~chanClosed
               /\ chanLen < ChanCap
               /\ pc' = "frames"
               /\ fwd' = fwd \o events
               /\ chanLen' = chanLen + 1
            \/ /\ pc = "send"
               /\ chanClosed
               /\ pc' = "done"
               /\ exit' = "send_closed"
               /\ fwd' = fwd
            \/ /\ pc = "frames"
               /\ pc' \in {"frames", "send", "recv"}
               /\ recvCount' = recvCount
               /\ chanLen' = chanLen ]_vars

\* the signal has resolved while the channel has room for the pending batch
\* and further decode results of the datagram are waiting
C12_Witness ==
    /\ shutdown
    /\ pc = "send"
    /\ ~chanClosed
    /\ chanLen < ChanCap
    /\ stream # <<>>
    /\ netQueue >= 1

-----------------------------------------------------------------------------
-----------------------------------------------------------------------------
\* C14 (decode failure handling): the step that pulls an Err decode result
\* delivers nothing, takes nothing back from the channel, receives nothing
\* and does not end the run; when the error can be continued from, the loop
\* stays in the datagram with the following decode results still to pull,
\* and when it cannot, the rest of the datagram is dropped and the loop is
\* back at the receive with a buffer of max_length + 1 bytes.
C14_DecodeFailure ==
    [][ (pc = "frames" /\ stream # <<>> /\ ~Head(stream).ok
            /\ stream' # stream) =>
            /\ chanLen' = chanLen
            /\ unacked' = unacked
            /\ recvCount' = recvCount
            /\ netQueue' = netQueue
            /\ ret' = "none"
            /\ exit' = "none"
            /\ IF Head(stream).can_continue
               THEN /\ pc' = "frames"
                    /\ stream' = Tail(stream)
                    /\ fwd' = fwd
               ELSE /\ pc' = "recv"
                    /\ stream' = <<>>
                    /\ bufLen' = max_length + 1 ]_vars

\* in the second datagram of the run, the frame that follows a decode error
\* that could be continued from has been forwarded
C14_Witness ==
    /\ DatagramProcessed
    /\ recvCount = 2
    /\ Len(dgram) = 2
    /\ ~dgram[1].ok
    /\ dgram[1].can_continue
    /\ dgram[2].ok
    /\ fwd # <<>>
    /\ fwd = dgram[2].events

-----------------------------------------------------------------------------
\* stream.next() is about to return None for the datagram in hand, whether
\* or not it yielded any decode result
DatagramDone == pc = "frames" /\ stream = <<>>

\* C15 as stated: a datagram whose decode results (at least one) were all
\* processed has had the warning exactly once when max_length + 1 bytes were
\* read, and never when max_length bytes or fewer were read.
C15_AsStated ==
    DatagramProcessed =>
        warnings = (IF byte_size = max_length + 1 THEN 1 ELSE 0)

\* C15 (truncation warning): a datagram of max_length bytes or fewer never
\* has the warning; a datagram of max_length + 1 bytes has it at most once,
\* and once all its decode results are processed it has had it exactly once
\* when the final decode result was a success and not at all when the final
\* decode result was an error or there was no decode result.  A receive that
\* failed with the platform's message too long error logs the same warning.
C15_TruncationWarning ==
    /\ pc \in {"frames", "send"} =>
          /\ warnings <= 1
          /\ warnings = 1 => byte_size = max_length + 1
    /\ DatagramDone =>
          warnings = (IF /\ byte_size = max_length + 1
                         /\ dgram # <<>>
                         /\ dgram[Len(dgram)].ok
                      THEN 1 ELSE 0)
    /\ pc = "recv" => warnings = (IF lastRecv = "msgsize" THEN 1 ELSE 0)

\* a truncated datagram of two successful frames has had the warning once
C15_Witness ==
    /\ DatagramProcessed
    /\ byte_size = max_length + 1
    /\ Len(dgram) = 2
    /\ dgram[1].ok
    /\ dgram[2].ok
    /\ warnings = 1

-----------------------------------------------------------------------------
\* the decode result at the head of the stream is a success whose event
\* list is empty, or is left empty by the pop of a truncated final result
EmptyResult ==
    LET result == Head(stream)
    IN  /\ result.ok
        /\ \/ result.events = <<>>
           \/ /\ Len(result.events) = 1
              /\ Tail(stream) = <<>>
              /\ byte_size = max_length + 1

\* C16 (no empty batch): a batch offered to the channel always holds at
\* least one event; the step that pulls a successful decode result whose
\* event list is empty, or becomes empty by the truncation drop, makes no
\* batch, emits no SocketEventsReceived and stays in the decode loop with
\* the next result to pull; any other successful result makes one batch and
\* one SocketEventsReceived emission.
C16_NoEmptyBatch ==
    /\ [](pc = "send" => events # <<>>)
    /\ [][ (pc = "frames" /\ stream # <<>> /\ Head(stream).ok
               /\ stream' # stream) =>
               IF EmptyResult
               THEN /\ pc' = "frames"
                    /\ stream' = Tail(stream)
                    /\ events_received' = events_received
                    /\ unacked' = unacked
                    /\ chanLen' = chanLen
                    /\ fwd' = fwd
               ELSE /\ pc' = "send"
                    /\ events' # <<>>
                    /\ events_received' = events_received + 1
                    /\ unacked' = unacked + 1 ]_vars

\* a truncated datagram of an empty frame and a final frame of one event
\* was processed without any batch or SocketEventsReceived emission
C16_Witness ==
    /\ DatagramProcessed
    /\ byte_size = max_length + 1
    /\ Len(dgram) = 2
    /\ dgram[1].ok
    /\ dgram[1].events = <<>>
    /\ dgram[2].ok
    /\ Len(dgram[2].events) = 1
    /\ events_received = 0
    /\ fwd = <<>>

-----------------------------------------------------------------------------
-----------------------------------------------------------------------------
\* C18 (effective length and truncation flag): in the receive loop
\* max_length is the smaller of the configured max_length and
\* receive_buffer_bytes when that is set, else the configured max_length;
\* every receive, the first and the later ones, starts with a buffer of
\* max_length + 1 bytes; and a datagram that was read is flagged truncated
\* exactly when its length on the wire is above max_length, which is exactly
\* when max_length + 1 bytes were read.
C18_EffectiveLength ==
    /\ pc \in {"recv", "frames", "send"} =>
          max_length =
              (IF /\ config.receive_buffer_bytes.some
                  /\ config.receive_buffer_bytes.v < config.max_length
               THEN config.receive_buffer_bytes.v
               ELSE config.max_length)
    /\ pc = "recv" => bufLen = max_length + 1
    /\ pc \in {"frames", "send"} =>
          /\ byte_size = Min(wire_len, max_length + 1)
          /\ truncated <=> (wire_len > max_length)
          /\ truncated <=> (byte_size = max_length + 1)

\* the second datagram of the run is two bytes longer than a max_length that
\* comes from receive_buffer_bytes, and is in hand flagged truncated
C18_Witness ==
    /\ pc = "frames"
    /\ recvCount = 2
    /\ config.max_length = 2
    /\ config.receive_buffer_bytes = Some(1)
    /\ max_length = 1
    /\ wire_len = 3
    /\ byte_size = 2
    /\ truncated

-----------------------------------------------------------------------------
\* the events of the datagram in hand that were delivered to the channel or
\* are in the batch being sent, in the order of delivery
Handed == fwd \o events

\* C19 (no loss or duplication): while a datagram is being processed, the
\* events handed to the channel are events of that datagram only, without
\* repetition and in decode order; as long as a further decode result is to
\* come they are all the events of the successful results pulled so far;
\* once the final result is pulled they are all of them or all but the very
\* last one, the latter only for a datagram of max_length + 1 bytes whose
\* final result is a success; so a truncated datagram whose final result is
\* an error loses no event.  Events of a datagram are handed over only while
\* it is the latest one received, hence before any event of a later one.
C19_NoLossNoDup ==
    pc \in {"frames", "send"} =>
        LET pulled == SubSeq(dgram, 1, Len(dgram) - Len(stream))
            n == Len(pulledEvents)
        IN  /\ pulledEvents = AllEvents(pulled)
            /\ pc = "frames" => events = <<>>
            /\ \A i, j \in 1..Len(Handed) : i # j => Handed[i] # Handed[j]
            /\ \A i \in 1..Len(Handed) : Handed[i].d = recvCount
            /\ stream # <<>> => Handed = pulledEvents
            /\ stream = <<>> =>
                  \/ Handed = pulledEvents
                  \/ /\ n >= 1
                     /\ Handed = SubSeq(pulledEvents, 1, n - 1)
                     /\ byte_size = max_length + 1
                     /\ dgram[Len(dgram)].ok
                     /\ dgram[Len(dgram)].events # <<>>
            /\ (stream = <<>> /\ dgram # <<>> /\ ~dgram[Len(dgram)].ok) =>
                  Handed = pulledEvents

\* a truncated datagram of a frame of two events and a final decode error
\* has had both events forwarded
C19_Witness ==
    /\ DatagramProcessed
    /\ byte_size = max_length + 1
    /\ Len(dgram) = 2
    /\ dgram[1].ok
    /\ Len(dgram[1].events) = 2
    /\ ~dgram[2].ok
    /\ fwd = dgram[1].events

-----------------------------------------------------------------------------
\* the items of all the batches fed to the RequestBuilder, batch after batch
FedItems == Flatten([i \in 1..Len(fed) |-> fed[i].items])

RECURSIVE OpenItems(_)
\* the items held in the open batches of the partition keys K
OpenItems(K) ==
    IF K = {} THEN {}
    ELSE LET k == CHOOSE x \in K : TRUE
         IN  Range(open[k]) \cup OpenItems(K \ {k})

RECURSIVE OpenCount(_)
OpenCount(K) ==
    IF K = {} THEN 0
    ELSE LET k == CHOOSE x \in K : TRUE
         IN  Len(open[k]) + OpenCount(K \ {k})

RECURSIVE EventCount(_)
\* the event count of a sequence of items
EventCount(items) ==
    IF items = <<>> THEN 0
    ELSE event_count(Head(items)) + EventCount(Tail(items))

\* C20 (event conservation in the sink): every Counter or Gauge metric
\* consumed from the input is, at any moment, in exactly one place: one slot
\* of one open batch or one slot of one batch fed to the RequestBuilder, and
\* nothing else is there; each counts as one event; and when run() has
\* returned no batch is open, so that every such metric is in exactly one
\* fed batch (the batches emitted at the end of the input included), every
\* fed batch has been built, and exactly the batches whose build succeeded
\* were given to the driver.
C20_EventConservation ==
    LET supported == consumed - unsupportedSeen
        held == Range(FedItems) \cup OpenItems(Tokens)
        ids == {item.event.id : item \in held}
    IN  /\ Len(FedItems) + OpenCount(Tokens) = supported
        /\ Cardinality(ids) = supported
        /\ ids \subseteq 1..consumed
        /\ \A item \in held : item.event.kind \in {"Counter", "Gauge"}
        /\ EventCount(FedItems) = Len(FedItems)
        /\ sinkDone =>
              /\ inputEnded
              /\ OpenCount(Tokens) = 0
              /\ EventCount(FedItems) = supported
              /\ yielded = Len(fed)
              /\ \A i \in 1..Len(fed) :
                    /\ fed[i].items # <<>>
                    /\ status[i] \in {"ok", "fail"}
                    /\ (status[i] = "ok") <=> (i \in Range(driver))
              /\ Len(driver) + build_errors = Len(fed)

\* run() has returned after an input of three metrics, one of them of an
\* unsupported kind, with a partial batch emitted at the end of the input and
\* a Request given to the driver
C20_Witness ==
    /\ sinkDone
    /\ consumed >= 3
    /\ unsupportedSeen = 1
    /\ \E i \in 1..Len(fed) :
          /\ fed[i].why = "end"
          /\ Len(fed[i].items) < BatchItemLimit
          /\ i \in Range(driver)

=============================================================================
